---- MODULE Spec2Model ----
(***************************************************************************)
(* Model of server.js: the relay between the Arduino serial link, the      *)
(* WebSocket clients and the Firestore document doorState/current.         *)
(*                                                                         *)
(* Text is modelled as sequences of one-character strings; a WebSocket     *)
(* frame (rawMsg) is a Buffer, modelled as a sequence of byte values.      *)
(* Node runs every callback to completion, so each callback is one action. *)
(***************************************************************************)
EXTENDS Integers, Sequences, FiniteSets

\* ------------------------------------------------------------------ bounds
MaxConns == 2        \* WebSocket connections that are ever accepted
MaxEvents == 4       \* events of the outside world in one run: connections
                     \* opening and closing, client messages, Arduino lines,
                     \* failing serial writes and writes of other Firestore
                     \* clients

Conns == 1..MaxConns

\* -------------------------------------------------------------------- text
NL == <<"\n">>
PASSCODE_PREFIX == <<"P", "A", "S", "S", "C", "O", "D", "E", ":">>
CLOSE == <<"C", "L", "O", "S", "E">>
RESET == <<"R", "E", "S", "E", "T">>
UNLOCK == <<"U", "N", "L", "O", "C", "K">>
LOCK == <<"L", "O", "C", "K">>

\* The characters String.prototype.trim() strips, among those that occur here.
WhiteSpace == {" ", "\t", "\n", "\r"}

RECURSIVE TrimStart(_)
TrimStart(s) ==
    IF s # <<>> /\ Head(s) \in WhiteSpace THEN TrimStart(Tail(s)) ELSE s

RECURSIVE TrimEnd(_)
TrimEnd(s) ==
    IF s # <<>> /\ s[Len(s)] \in WhiteSpace
    THEN TrimEnd(SubSeq(s, 1, Len(s) - 1))
    ELSE s

\* String.prototype.trim()
Trim(s) == TrimEnd(TrimStart(s))

\* String.prototype.startsWith(p)
StartsWith(s, p) == Len(s) >= Len(p) /\ SubSeq(s, 1, Len(p)) = p

\* Buffer.prototype.toString(): UTF-8 decoding, for the ASCII bytes used here.
CharOf(b) ==
    CASE b = 9 -> "\t"
      [] b = 10 -> "\n"
      [] b = 13 -> "\r"
      [] b = 32 -> " "
      [] b = 55 -> "7"
      [] b = 58 -> ":"
      [] b = 65 -> "A"
      [] b = 67 -> "C"
      [] b = 68 -> "D"
      [] b = 69 -> "E"
      [] b = 72 -> "H"
      [] b = 73 -> "I"
      [] b = 76 -> "L"
      [] b = 79 -> "O"
      [] b = 80 -> "P"
      [] b = 82 -> "R"
      [] b = 83 -> "S"
      [] b = 84 -> "T"
      [] b = 99 -> "c"
      [] OTHER -> "?"

toString(buf) == [i \in 1..Len(buf) |-> CharOf(buf[i])]

\* ------------------------------------------------------------------ inputs
\* Frames a client sends: " PASSCODE:7\n", "CLOSE\r\n", "RESET", "  " (empty
\* once trimmed), "HI" and "cLOSE".
RawMsgs ==
    { <<32, 80, 65, 83, 83, 67, 79, 68, 69, 58, 55, 10>>,
      <<67, 76, 79, 83, 69, 13, 10>>,
      <<82, 69, 83, 69, 84>>,
      <<32, 32>>,
      <<72, 73>>,
      <<99, 76, 79, 83, 69>> }

\* Lines the ReadlineParser emits (split on "\n", so none holds "\n"):
\* "OK\r" (Serial.println ends a line with "\r\n") and "\r" (an empty line).
RawLines ==
    { <<"O", "K", "\r">>, <<"\r">> }

\* ------------------------------------------------------ Firestore document
\* A document is [exists, state]: state is the value of the field `state`,
\* "undefined" when the document has no such field.
Absent == [exists |-> FALSE, state |-> "undefined"]
Doc(v) == [exists |-> TRUE, state |-> v]
StateValues == {"undefined", "", "open", "closed", "ajar"}
DocValues == {Absent} \cup {Doc(v) : v \in StateValues}

\* What other Firestore clients write (delete, or set the field).
ExtValues == {Absent, Doc("open"), Doc("closed"), Doc("ajar")}

\* DocumentSnapshot.data(): undefined when the document does not exist.
DataOf(snap) ==
    IF snap.exists THEN [defined |-> TRUE, state |-> snap.state]
    ELSE [defined |-> FALSE, state |-> "undefined"]

\* JavaScript's !v for the values a field takes here.
Falsy(v) == v \in {"undefined", ""}

VARIABLES
    status,      \* the process and its serial port: "opening", "open", "exited"
    exitCode,    \* the status the process exited with (-1 while it runs)
    conn,        \* ws.readyState of each connection ("NONE": not yet accepted)
    wssClients,  \* wss.clients
    errored,     \* the connections whose "error" handler has run
    inbox,       \* what each client has been sent with ws.send
    portWrites,  \* the port.write calls, in order: [text, src, tag]
    cbDone,      \* how many port.write callbacks have run
    errLog,      \* console.error output of the port.write callbacks: which
                 \* write failed, and how many writes had been issued by then
    doc,         \* the document doorState/current on the server
    listening,   \* whether the onSnapshot listener is still attached
    snapQ,       \* document versions not yet handed to the listener, in order
    pendingSets, \* documents of doorStateDocRef.set calls not applied yet
    nSnaps,      \* snapshots handled
    nOpenSnaps,  \* snapshots handled whose state was "open"
    nClosedSnaps, \* snapshots handled whose state was "closed"
    nMsgs,       \* client messages handled
    nEvents      \* events of the outside world so far

vars == <<status, exitCode, conn, wssClients, errored, inbox, portWrites, cbDone,
          errLog, doc, listening, snapQ, pendingSets, nSnaps, nOpenSnaps,
          nClosedSnaps, nMsgs, nEvents>>

Running == status # "exited"

Init ==
    /\ status = "opening"
    /\ exitCode = -1
    /\ conn = [c \in Conns |-> "NONE"]
    /\ wssClients = {}
    /\ errored = {}
    /\ inbox = [c \in Conns |-> <<>>]
    /\ portWrites = <<>>
    /\ cbDone = 0
    /\ errLog = <<>>
    /\ doc \in DocValues
    /\ listening = TRUE
    /\ snapQ = <<doc>>
    /\ pendingSets = <<>>
    /\ nSnaps = 0
    /\ nOpenSnaps = 0
    /\ nClosedSnaps = 0
    /\ nMsgs = 0
    /\ nEvents = 0

\* ----------------------------------------------------- serial port (34-43)
\* Mutant: the error is logged and the process goes on.
StatusAfterOpenNoExit(err) == "open"

\* The open callback: process.exit(1) on an error, otherwise the port is open.
StatusAfterOpen(err) == IF err THEN "exited" ELSE "open"

ExitCodeAfterOpen(err) == IF err THEN 1 ELSE exitCode

OpenCallback(err) ==
    /\ status = "opening"
    /\ status' = StatusAfterOpen(err)
    /\ exitCode' = ExitCodeAfterOpen(err)
    /\ UNCHANGED <<errored, listening, conn, wssClients, inbox, portWrites, cbDone, errLog, doc,
                   snapQ, pendingSets, nSnaps, nOpenSnaps, nClosedSnaps, nMsgs, nEvents>>

\* A port.write call: the text, who issued it, and the name its callback logs.
Write(text, src, tag) == [text |-> text, src |-> src, tag |-> tag]

\* Mutant: a failed write ends the process, as a failed open does.
StatusAfterWriteExits(err) == IF err THEN "exited" ELSE status

\* The callback of a port.write call: `if (err) console.error(...)`.
StatusAfterWrite(err) == status

LogAfterWrite(w, err) ==
    IF err THEN Append(errLog, [tag |-> w.tag, issued |-> Len(portWrites)])
    ELSE errLog

\* The callbacks run in the order of the calls, once the port is open.
WriteCallback(err) ==
    /\ status = "open"
    /\ cbDone < Len(portWrites)
    /\ err => nEvents < MaxEvents
    /\ cbDone' = cbDone + 1
    /\ errLog' = LogAfterWrite(portWrites[cbDone + 1], err)
    /\ status' = StatusAfterWrite(err)
    /\ nEvents' = IF err THEN nEvents + 1 ELSE nEvents
    /\ UNCHANGED <<errored, listening, exitCode, conn, wssClients, inbox, portWrites, doc, snapQ,
                   pendingSets, nSnaps, nOpenSnaps, nClosedSnaps, nMsgs>>

\* ------------------------------------------------- Arduino lines (57-65)
\* Mutant: the readyState test is missing.
ReceiversAnyState == wssClients

\* Mutant: the test is `readyState !== WebSocket.CLOSED`.
ReceiversNotClosed == {c \in wssClients : conn[c] # "CLOSED"}

\* Mutant: the iteration (in the order the sockets were accepted) stops at the
\* first socket that is not OPEN, as it would if that send threw.
ReceiversUntilFailure ==
    {c \in wssClients :
        \A d \in wssClients : d <= c => conn[d] = "OPEN"}

\* Mutant: a line is also kept for the connections not accepted yet.
ReceiversBuffered == {c \in Conns : conn[c] \in {"NONE", "OPEN"}}

\* The connections the forEach of wss.clients sends to.
Receivers == {c \in wssClients : conn[c] = "OPEN"}

\* Mutant: empty lines are not broadcast.
LineSendsNonEmpty(line) == IF Trim(line) = <<>> THEN <<>> ELSE <<Trim(line)>>

\* What parser.on("data") sends to each of them: msg = line.trim(), once.
LineSends(line) == <<Trim(line)>>

\* Mutant: what is sent overtakes what was sent before.
SocketSendOvertakes(received, msgs) == msgs \o received

\* ws.send(msg): one socket carries its messages in the order of the calls.
SocketSend(received, msgs) == received \o msgs

OnDeviceLine(line) ==
    /\ status = "open"
    /\ nEvents < MaxEvents
    /\ inbox' = [c \in Conns |->
                    IF c \in Receivers THEN SocketSend(inbox[c], LineSends(line))
                    ELSE inbox[c]]
    /\ nEvents' = nEvents + 1
    /\ UNCHANGED <<errored, listening, status, exitCode, conn, wssClients, portWrites, cbDone,
                   errLog, doc, snapQ, pendingSets, nSnaps, nOpenSnaps, nClosedSnaps, nMsgs>>

\* --------------------------------------------- WebSocket clients (68-102)
\* wss.on("connection"): the socket is OPEN and in wss.clients. Connections
\* are numbered in the order they are accepted.
Connect(c) ==
    /\ Running
    /\ nEvents < MaxEvents
    /\ conn[c] = "NONE"
    /\ \A d \in Conns : d < c => conn[d] # "NONE"
    /\ conn' = [conn EXCEPT ![c] = "OPEN"]
    /\ wssClients' = wssClients \cup {c}
    /\ nEvents' = nEvents + 1
    /\ UNCHANGED <<errored, listening, status, exitCode, inbox, portWrites, cbDone, errLog, doc,
                   snapQ, pendingSets, nSnaps, nOpenSnaps, nClosedSnaps, nMsgs>>

\* The closing handshake has started: readyState is CLOSING, the socket is
\* still in wss.clients.
StartClose(c) ==
    /\ Running
    /\ nEvents < MaxEvents
    /\ conn[c] = "OPEN"
    /\ conn' = [conn EXCEPT ![c] = "CLOSING"]
    /\ nEvents' = nEvents + 1
    /\ UNCHANGED <<errored, listening, status, exitCode, wssClients, inbox, portWrites, cbDone,
                   errLog, doc, snapQ, pendingSets, nSnaps, nOpenSnaps, nClosedSnaps, nMsgs>>

\* ws.on("close"): readyState is CLOSED and the server has dropped the socket
\* from wss.clients; the handler only logs.
OnClose(c) ==
    /\ Running
    /\ nEvents < MaxEvents
    /\ conn[c] \in {"OPEN", "CLOSING"}
    /\ conn' = [conn EXCEPT ![c] = "CLOSED"]
    /\ wssClients' = wssClients \ {c}
    /\ nEvents' = nEvents + 1
    /\ UNCHANGED <<errored, listening, status, exitCode, inbox, portWrites, cbDone, errLog, doc,
                   snapQ, pendingSets, nSnaps, nOpenSnaps, nClosedSnaps, nMsgs>>

\* Mutant: no "error" handler is registered, so the event is thrown.
StatusAfterSocketErrorUncaught(c) == "exited"

\* ws.on("error"): the handler only logs.
StatusAfterSocketError(c) == status

\* A socket or protocol error on connection c. The ws library has taken the
\* socket out of the OPEN state when it emits "error"; "close" follows.
OnError(c) ==
    /\ Running
    /\ nEvents < MaxEvents
    /\ conn[c] \in {"OPEN", "CLOSING"}
    /\ conn' = [conn EXCEPT ![c] = "CLOSING"]
    /\ errored' = errored \cup {c}
    /\ status' = StatusAfterSocketError(c)
    /\ nEvents' = nEvents + 1
    /\ UNCHANGED <<listening, exitCode, wssClients, inbox, portWrites, cbDone,
                   errLog, doc, snapQ, pendingSets, nSnaps, nOpenSnaps,
                   nClosedSnaps, nMsgs>>

\* Mutant: the final else branch is missing, unknown messages are dropped.
MessageWritesKnownOnly(message) ==
    IF StartsWith(message, PASSCODE_PREFIX)
    THEN <<Write(message \o NL, "client", "PASSCODE")>>
    ELSE IF message = CLOSE
    THEN <<Write(CLOSE \o NL, "client", "CLOSE")>>
    ELSE IF message = RESET
    THEN <<Write(RESET \o NL, "client", "RESET")>>
    ELSE <<>>

\* Mutant: three separate ifs instead of one if / else-if chain: a message
\* with its own branch is written there and forwarded again by the last one.
MessageWritesFallThrough(message) ==
    (IF StartsWith(message, PASSCODE_PREFIX)
     THEN <<Write(message \o NL, "client", "PASSCODE")>>
     ELSE IF message = CLOSE
     THEN <<Write(CLOSE \o NL, "client", "CLOSE")>>
     ELSE <<>>)
    \o (IF message = RESET
        THEN <<Write(RESET \o NL, "client", "RESET")>>
        ELSE <<Write(message \o NL, "client", "message")>>)

\* The port.write calls of ws.on("message") for `message`.
MessageWrites(message) ==
    IF StartsWith(message, PASSCODE_PREFIX)
    THEN <<Write(message \o NL, "client", "PASSCODE")>>
    ELSE IF message = CLOSE
    THEN <<Write(CLOSE \o NL, "client", "CLOSE")>>
    ELSE IF message = RESET
    THEN <<Write(RESET \o NL, "client", "RESET")>>
    ELSE <<Write(message \o NL, "client", "message")>>

OnMessage(c, rawMsg) ==
    /\ Running
    /\ nEvents < MaxEvents
    /\ conn[c] = "OPEN"
    /\ LET message == Trim(toString(rawMsg))
       IN portWrites' = portWrites \o MessageWrites(message)
    /\ nMsgs' = nMsgs + 1
    /\ nEvents' = nEvents + 1
    /\ UNCHANGED <<errored, listening, status, exitCode, conn, wssClients, inbox, cbDone, errLog,
                   doc, snapQ, pendingSets, nSnaps, nOpenSnaps, nClosedSnaps>>

\* ------------------------------------------- doorState/current (110-138)
\* Mutant: a plain else instead of `else if (newState === "closed")`.
SnapshotWritesElseLock(docSnapshot) ==
    IF ~docSnapshot.exists THEN <<>>
    ELSE LET data == DataOf(docSnapshot)
         IN IF ~data.defined \/ Falsy(data.state) THEN <<>>
            ELSE IF data.state = "open"
            THEN <<Write(UNLOCK \o NL, "snapshot", "UNLOCK")>>
            ELSE <<Write(LOCK \o NL, "snapshot", "LOCK")>>

\* Mutant: a command is issued only when it differs from the previous one.
SnapshotWritesDedup(docSnapshot) ==
    LET issued == SelectSeq(portWrites, LAMBDA w : w.src = "snapshot")
        cmd == IF ~docSnapshot.exists \/ Falsy(DataOf(docSnapshot).state) THEN <<>>
               ELSE IF docSnapshot.state = "open"
               THEN <<Write(UNLOCK \o NL, "snapshot", "UNLOCK")>>
               ELSE IF docSnapshot.state = "closed"
               THEN <<Write(LOCK \o NL, "snapshot", "LOCK")>>
               ELSE <<>>
    IN IF issued # <<>> /\ cmd = <<issued[Len(issued)]>> THEN <<>> ELSE cmd

\* Mutant: a missing document is treated as a closed door at once.
SnapshotWritesAbsentLocks(docSnapshot) ==
    IF ~docSnapshot.exists THEN <<Write(LOCK \o NL, "snapshot", "LOCK")>>
    ELSE LET data == DataOf(docSnapshot)
         IN IF ~data.defined \/ Falsy(data.state) THEN <<>>
            ELSE IF data.state = "open"
            THEN <<Write(UNLOCK \o NL, "snapshot", "UNLOCK")>>
            ELSE IF data.state = "closed"
            THEN <<Write(LOCK \o NL, "snapshot", "LOCK")>>
            ELSE <<>>

\* The port.write calls of the snapshot callback.
SnapshotWrites(docSnapshot) ==
    IF ~docSnapshot.exists THEN <<>>
    ELSE LET data == DataOf(docSnapshot)
         IN IF ~data.defined \/ Falsy(data.state) THEN <<>>
            ELSE IF data.state = "open"
            THEN <<Write(UNLOCK \o NL, "snapshot", "UNLOCK")>>
            ELSE IF data.state = "closed"
            THEN <<Write(LOCK \o NL, "snapshot", "LOCK")>>
            ELSE <<>>

\* Mutant: a missing document is left missing.
SnapshotSetsNone(docSnapshot) == <<>>

\* Mutant: the default is written whenever no state is found.
SnapshotSetsIfNoState(docSnapshot) ==
    IF ~docSnapshot.exists \/ Falsy(DataOf(docSnapshot).state)
    THEN <<Doc("closed")>>
    ELSE <<>>

\* Mutant: a state that is neither "open" nor "closed" is reset to the default.
SnapshotSetsNormalise(docSnapshot) ==
    IF ~docSnapshot.exists \/ docSnapshot.state \notin {"open", "closed"}
    THEN <<Doc("closed")>>
    ELSE <<>>

\* The doorStateDocRef.set({ state: "closed" }) calls of the snapshot callback.
SnapshotSets(docSnapshot) ==
    IF ~docSnapshot.exists THEN <<Doc("closed")>> ELSE <<>>

OnSnapshot ==
    /\ Running
    /\ listening
    /\ snapQ # <<>>
    /\ LET docSnapshot == Head(snapQ)
       IN /\ portWrites' = portWrites \o SnapshotWrites(docSnapshot)
          /\ pendingSets' = pendingSets \o SnapshotSets(docSnapshot)
          /\ nSnaps' = nSnaps + 1
          /\ nOpenSnaps' = nOpenSnaps + IF docSnapshot = Doc("open") THEN 1 ELSE 0
          /\ nClosedSnaps' =
                nClosedSnaps + IF docSnapshot = Doc("closed") THEN 1 ELSE 0
          /\ snapQ' = Tail(snapQ)
    /\ UNCHANGED <<errored, listening, status, exitCode, conn, wssClients, inbox, cbDone, errLog,
                   doc, nMsgs, nEvents>>

\* Mutant: the error callback ends the process, as a failed open does.
StatusAfterWatchErrorExits == "exited"

\* The error callback of onSnapshot: console.error only.
StatusAfterWatchError == status

\* The watch fails for good: Firestore calls the error callback once and
\* detaches the listener, which is sent nothing from then on. What the
\* listener had not been handed is dropped; snapQ then collects the document
\* versions written after the failure, which no listener is there to take.
WatchError ==
    /\ Running
    /\ listening
    /\ nEvents < MaxEvents
    /\ listening' = FALSE
    /\ snapQ' = <<>>
    /\ status' = StatusAfterWatchError
    /\ nEvents' = nEvents + 1
    /\ UNCHANGED <<errored, exitCode, conn, wssClients, inbox, portWrites,
                   cbDone, errLog, doc, pendingSets, nSnaps, nOpenSnaps,
                   nClosedSnaps, nMsgs>>

\* What Node does with a rejected promise that has no handler: before Node 15
\* it prints a warning, from Node 15 on it throws and the process exits with
\* status 1.
UnhandledRejectionModes == {"warn", "throw"}

\* The promise of doorStateDocRef.set(...) is rejected; the call has no
\* .catch() and is not awaited.
StatusAfterSetRejected(mode) == IF mode = "throw" THEN "exited" ELSE status

ExitCodeAfterSetRejected(mode) == IF mode = "throw" THEN 1 ELSE exitCode

SetRejected(mode) ==
    /\ Running
    /\ nEvents < MaxEvents
    /\ pendingSets # <<>>
    /\ pendingSets' = Tail(pendingSets)
    /\ status' = StatusAfterSetRejected(mode)
    /\ exitCode' = ExitCodeAfterSetRejected(mode)
    /\ nEvents' = nEvents + 1
    /\ UNCHANGED <<errored, listening, conn, wssClients, inbox, portWrites,
                   cbDone, errLog, doc, snapQ, nSnaps, nOpenSnaps,
                   nClosedSnaps, nMsgs>>

\* The server applies the oldest pending set(): the document is replaced, and
\* the listener is sent the new document.
SetApplied ==
    /\ Running
    /\ pendingSets # <<>>
    /\ pendingSets' = Tail(pendingSets)
    /\ doc' = Head(pendingSets)
    /\ snapQ' = Append(snapQ, Head(pendingSets))
    /\ UNCHANGED <<errored, listening, status, exitCode, conn, wssClients, inbox, portWrites,
                   cbDone, errLog, nSnaps, nOpenSnaps, nClosedSnaps, nMsgs, nEvents>>

\* Another Firestore client writes or deletes the document; the listener is
\* sent the result.
ExtWrite(v) ==
    /\ Running
    /\ nEvents < MaxEvents
    /\ doc' = v
    /\ snapQ' = Append(snapQ, v)
    /\ nEvents' = nEvents + 1
    /\ UNCHANGED <<errored, listening, status, exitCode, conn, wssClients, inbox, portWrites,
                   cbDone, errLog, pendingSets, nSnaps, nOpenSnaps, nClosedSnaps, nMsgs>>

\* ----------------------------------------------------------- specification
Next ==
    \/ \E err \in BOOLEAN : OpenCallback(err)
    \/ \E err \in BOOLEAN : WriteCallback(err)
    \/ \E line \in RawLines : OnDeviceLine(line)
    \/ \E c \in Conns : Connect(c)
    \/ \E c \in Conns : StartClose(c)
    \/ \E c \in Conns : OnClose(c)
    \/ \E c \in Conns : OnError(c)
    \/ \E c \in Conns, rawMsg \in RawMsgs : OnMessage(c, rawMsg)
    \/ OnSnapshot
    \/ SetApplied
    \/ \E v \in ExtValues : ExtWrite(v)
    \/ WatchError
    \/ \E mode \in UnhandledRejectionModes : SetRejected(mode)

Spec == Init /\ [][Next]_vars

\* The relay with a serial port that opens, no other writer of the document,
\* and fair delivery: a queued snapshot is eventually handed to the listener
\* and a pending set() is eventually applied by the server.
LiveNext ==
    \/ OpenCallback(FALSE)
    \/ \E err \in BOOLEAN : WriteCallback(err)
    \/ \E line \in RawLines : OnDeviceLine(line)
    \/ \E c \in Conns : Connect(c)
    \/ \E c \in Conns : StartClose(c)
    \/ \E c \in Conns : OnClose(c)
    \/ \E c \in Conns : OnError(c)
    \/ \E c \in Conns, rawMsg \in RawMsgs : OnMessage(c, rawMsg)
    \/ OnSnapshot
    \/ SetApplied

LiveSpec ==
    Init /\ [][LiveNext]_vars /\ WF_vars(OnSnapshot) /\ WF_vars(SetApplied)

\* The relay with other writers of the document and a watch that can fail,
\* in a process that is not ended by a failed open or a rejected set(), and
\* with the same fair delivery.
WatchNext ==
    \/ LiveNext
    \/ \E v \in ExtValues : ExtWrite(v)
    \/ WatchError
    \/ SetRejected("warn")

WatchSpec ==
    Init /\ [][WatchNext]_vars /\ WF_vars(OnSnapshot) /\ WF_vars(SetApplied)

\* ================================================================== claims
\* A step in which the snapshot callback ran: it consumed the oldest snapshot.
SnapshotHandled == snapQ # <<>> /\ snapQ' = Tail(snapQ) /\ nSnaps' = nSnaps + 1

WritesOf(src, tag) ==
    SelectSeq(portWrites, LAMBDA w : w.src = src /\ w.tag = tag)

\* classify(M) of the specification: the ordered rules of its section 4.4.
Classify(M) ==
    CASE StartsWith(M, PASSCODE_PREFIX) -> "PASSCODE"
      [] ~StartsWith(M, PASSCODE_PREFIX) /\ M = CLOSE -> "CLOSE"
      [] ~StartsWith(M, PASSCODE_PREFIX) /\ M # CLOSE /\ M = RESET -> "RESET"
      [] OTHER -> "message"

\* C1: handling a client message M (trimmed) appends exactly one port.write
\* call to those made so far; its text is M followed by "\n" (which is
\* "CLOSE\n" for M = "CLOSE" and "RESET\n" for M = "RESET"), and it is issued
\* by the one branch that the ordered rules select for M.
C1_MessageForwardedOnce ==
    [][\A c \in Conns, rawMsg \in RawMsgs :
          OnMessage(c, rawMsg) =>
              LET M == Trim(toString(rawMsg))
              IN portWrites' =
                     Append(portWrites, Write(M \o NL, "client", Classify(M)))]_vars

\* C1 witness: a PASSCODE message and a whitespace-only message have both been
\* forwarded, the second as an empty line.
C1_Witness ==
    \E i, j \in 1..Len(portWrites) :
        /\ portWrites[i].tag = "PASSCODE"
        /\ portWrites[i].text = PASSCODE_PREFIX \o <<"7">> \o NL
        /\ portWrites[j] = Write(NL, "client", "message")

\* C2: handling a snapshot of an existing document with a populated state
\* writes exactly one "UNLOCK\n" when the state is "open", exactly one
\* "LOCK\n" when it is "closed", and for any other value writes nothing to
\* the port and issues no document write.
C2_StateToCommand ==
    [][(SnapshotHandled /\ Head(snapQ).exists /\ ~Falsy(Head(snapQ).state)) =>
          LET value == Head(snapQ).state
          IN /\ value = "open" =>
                   portWrites' =
                       Append(portWrites, Write(UNLOCK \o NL, "snapshot", "UNLOCK"))
             /\ value = "closed" =>
                   portWrites' =
                       Append(portWrites, Write(LOCK \o NL, "snapshot", "LOCK"))
             /\ value \notin {"open", "closed"} =>
                   /\ portWrites' = portWrites
                   /\ pendingSets' = pendingSets
                   /\ doc' = doc]_vars

\* C2 witness: an "open" and a "closed" snapshot have been turned into
\* commands and a snapshot with another value is next.
C2_Witness ==
    /\ Len(WritesOf("snapshot", "UNLOCK")) = 1
    /\ Len(WritesOf("snapshot", "LOCK")) = 1
    /\ snapQ = <<Doc("ajar")>>

\* C3: snapshots are not de-duplicated: the port has been written one
\* "UNLOCK\n" for every "open" snapshot handled and one "LOCK\n" for every
\* "closed" snapshot handled, whatever the snapshots before them held.
C3_NoDeduplication ==
    /\ Len(WritesOf("snapshot", "UNLOCK")) = nOpenSnaps
    /\ Len(WritesOf("snapshot", "LOCK")) = nClosedSnaps

\* C3 witness: two "open" snapshots in a row gave two "UNLOCK\n" in a row.
C3_Witness ==
    /\ nOpenSnaps = 2
    /\ nClosedSnaps = 0
    /\ \E i \in 1..Len(portWrites) - 1 :
          /\ portWrites[i].tag = "UNLOCK"
          /\ portWrites[i + 1].tag = "UNLOCK"

\* C4: when a line is broadcast, a connection that is OPEN at that moment is
\* sent the line, and a connection that is not (closing, closed, or not
\* accepted yet) is sent nothing.
C4_OpenClientsReceive ==
    [][\A line \in RawLines :
          OnDeviceLine(line) =>
              \A c \in Conns :
                  /\ conn[c] = "OPEN" =>
                        /\ Len(inbox'[c]) = Len(inbox[c]) + 1
                        /\ inbox'[c][Len(inbox'[c])] = Trim(line)
                  /\ conn[c] # "OPEN" => inbox'[c] = inbox[c]]_vars

\* C4 witness: connection 2 got a line that connection 1, closed or closing
\* before the broadcast, did not get.
C4_Witness ==
    /\ conn[1] \in {"CLOSING", "CLOSED"}
    /\ conn[2] = "OPEN"
    /\ inbox[1] = <<>>
    /\ Len(inbox[2]) = 1

\* C5: handling a line, empty or not, sends every open client the trimmed
\* line exactly once, appended unchanged to what it was sent before; no other
\* client is sent anything, and nothing else is written.
C5_LineBroadcastOnce ==
    [][\A line \in RawLines :
          OnDeviceLine(line) =>
              /\ \A c \in Conns :
                    inbox'[c] = IF c \in wssClients /\ conn[c] = "OPEN"
                                THEN Append(inbox[c], Trim(line))
                                ELSE inbox[c]
              /\ UNCHANGED <<portWrites, pendingSets, doc>>]_vars

\* C5 witness: a client was sent an empty line and then the line "OK".
C5_Witness ==
    \E c \in Conns : inbox[c] = << <<>>, <<"O", "K">> >>

\* C6: handling a snapshot of a missing document issues the write of the
\* default document {state: "closed"} and no port.write call.
C6_AbsentWritesDefault ==
    [][(SnapshotHandled /\ ~Head(snapQ).exists) =>
          /\ pendingSets' = Append(pendingSets, Doc("closed"))
          /\ portWrites' = portWrites]_vars

\* C6 witness: the default write is pending and nothing was written to the
\* port.
C6_Witness ==
    /\ pendingSets = <<Doc("closed")>>
    /\ nOpenSnaps + nClosedSnaps = 0
    /\ portWrites = <<>>
    /\ snapQ = <<>>

\* C7: once the listener is about to be told that the document is missing,
\* a "LOCK\n" is eventually written to the port: the default write is applied
\* and the snapshot it causes is handled like any other.
C7_BootstrapLocks ==
    (snapQ # <<>> /\ ~Head(snapQ).exists)
        ~> (WritesOf("snapshot", "LOCK") # <<>>)

\* C7 witness: two snapshots were handled, the missing document and then the
\* default the relay wrote, and the second one gave "LOCK\n".
C7_Witness ==
    /\ nSnaps = 2
    /\ nClosedSnaps = 1
    /\ doc = Doc("closed")
    /\ pendingSets = <<>>
    /\ Len(WritesOf("snapshot", "LOCK")) = 1

\* C8: handling a snapshot of an existing document whose state is absent or
\* empty changes nothing but the listener's own position: no port.write call,
\* no document write, nothing sent to a client.
C8_EmptyStateIgnored ==
    [][(SnapshotHandled /\ Head(snapQ).exists /\ Falsy(Head(snapQ).state)) =>
          UNCHANGED <<status, exitCode, conn, wssClients, inbox, portWrites,
                      cbDone, errLog, doc, pendingSets, nOpenSnaps,
                      nClosedSnaps>>]_vars

\* C8 witness: the only snapshot, of a document with an empty state, was
\* handled and left no trace.
C8_Witness ==
    /\ nSnaps = 1
    /\ doc = Doc("")
    /\ snapQ = <<>>
    /\ portWrites = <<>>
    /\ pendingSets = <<>>

\* C9: when the open callback reports an error the process exits with a
\* non-zero status, and from then on no callback runs.
C9_OpenFailureIsFatal ==
    [][/\ OpenCallback(TRUE) => status' = "exited" /\ exitCode' # 0
       /\ status = "exited" => UNCHANGED vars]_vars

\* C9 witness: the process has exited with status 1 while a snapshot was
\* still waiting and a client was connected.
C9_Witness ==
    /\ status = "exited"
    /\ exitCode = 1
    /\ snapQ # <<>>
    /\ \E c \in Conns : conn[c] = "OPEN"

\* After a failed write, and as long as nothing else has ended the process
\* or the watch, the three kinds of events are still handled.
StillHandled ==
    (errLog # <<>> /\ Running /\ nEvents < MaxEvents) =>
        /\ ENABLED (\E line \in RawLines : OnDeviceLine(line))
        /\ \A c \in Conns :
              conn[c] = "OPEN" => ENABLED (\E rawMsg \in RawMsgs : OnMessage(c, rawMsg))
        /\ (listening /\ snapQ # <<>>) => ENABLED OnSnapshot

C11_FailureDoesNotStopBroadcast ==
    [][\A line \in RawLines :
          (OnDeviceLine(line) /\ \E d \in wssClients : conn[d] # "OPEN") =>
              \A c \in Conns :
                  conn[c] = "OPEN" => inbox'[c] = Append(inbox[c], Trim(line))]_vars

\* C11 witness: connection 1, first in the iteration, was closing when the
\* line was broadcast and got nothing; connection 2 got the line.
C11_Witness ==
    /\ 1 \in wssClients
    /\ conn[1] = "CLOSING"
    /\ inbox[1] = <<>>
    /\ conn[2] = "OPEN"
    /\ Len(inbox[2]) = 1

\* After the error callback of the watch has run, a device line and a message
\* of an open connection are still handled.
HandledAfterWatchError ==
    (~listening /\ Running /\ nEvents < MaxEvents) =>
        /\ status = "open" => ENABLED (\E line \in RawLines : OnDeviceLine(line))
        /\ \A c \in Conns :
              conn[c] = "OPEN" => ENABLED (\E rawMsg \in RawMsgs : OnMessage(c, rawMsg))

\* C12: an error reported by the document subscription leaves the process
\* running, writes nothing to the port, sends nothing to a client and issues
\* no set(); the core never subscribes again, so no snapshot is handled after
\* it; device lines and client messages are handled as before.
C12_WatchErrorNotFatal ==
    /\ []HandledAfterWatchError
    /\ [][WatchError =>
              /\ status' = status
              /\ UNCHANGED <<exitCode, conn, wssClients, inbox, portWrites,
                             pendingSets, doc>>]_vars
    /\ [][~listening => (~listening' /\ ~SnapshotHandled)]_vars

\* The watch has failed, the port is open and a line and a message of the
\* open connection 1 can be handled.
C12_Witness ==
    /\ ~listening
    /\ status = "open"
    /\ conn[1] = "OPEN"
    /\ ENABLED (\E line \in RawLines : OnDeviceLine(line))
    /\ ENABLED (\E rawMsg \in RawMsgs : OnMessage(1, rawMsg))

\* A document change made after the watch reported an error has not been
\* handed to the listener, the document now holds v, and n commands of that
\* kind have been written so far.
ChangedAfterWatchError(v, tag, n) ==
    /\ ~listening
    /\ snapQ # <<>>
    /\ doc = Doc(v)
    /\ Len(WritesOf("snapshot", tag)) = n

\* C13: a change of the document's state to "open" (to "closed") made after
\* the subscription reported an error is eventually followed by a further
\* "UNLOCK\n" ("LOCK\n") on the port.
C13_ChangeAfterErrorCommands ==
    \A n \in 0..MaxEvents :
        /\ ChangedAfterWatchError("open", "UNLOCK", n)
               ~> (Len(WritesOf("snapshot", "UNLOCK")) > n)
        /\ ChangedAfterWatchError("closed", "LOCK", n)
               ~> (Len(WritesOf("snapshot", "LOCK")) > n)

\* C14: every set() the relay issues is issued by the handling of a snapshot
\* of a missing document and writes {state: "closed"}; a device line, a
\* client message or a snapshot of an existing document issues none, and
\* no value other than "closed" is ever written.
C14_OnlyDefaultWrite ==
    /\ [](\A i \in 1..Len(pendingSets) : pendingSets[i] = Doc("closed"))
    /\ [][Len(pendingSets') > Len(pendingSets) =>
              /\ SnapshotHandled
              /\ ~Head(snapQ).exists
              /\ pendingSets' = Append(pendingSets, Doc("closed"))]_vars

\* C14 witness: the missing document and then an "open" document were
\* handled, and a device line and a client message too; the one set() issued
\* is the default.
C14_Witness ==
    /\ nSnaps = 2
    /\ nOpenSnaps = 1
    /\ nMsgs = 1
    /\ inbox[1] # <<>>
    /\ pendingSets = <<Doc("closed")>>

IsPrefix(s, t) == Len(s) <= Len(t) /\ SubSeq(t, 1, Len(s)) = s

IsSuffix(s, t) ==
    Len(s) <= Len(t) /\ SubSeq(t, Len(t) - Len(s) + 1, Len(t)) = s

\* Two open connections: the one accepted later has received the tail of
\* what the earlier one has received.
SameSequence ==
    \A c, d \in Conns :
        (c < d /\ conn[c] = "OPEN" /\ conn[d] = "OPEN") =>
            IsSuffix(inbox[d], inbox[c])

\* C15: whatever else happens in between, a step leaves the port.write calls
\* made so far in place and puts new ones after them, so the commands for the
\* messages of one connection are in the order the messages arrived; it
\* leaves what a client has received in place and puts a new line after it,
\* so a client has its lines in the device's order; and two connections that
\* are open have received the same lines since the later one was accepted.
C15_OrderPreserved ==
    /\ []SameSequence
    /\ [][IsPrefix(portWrites, portWrites')]_vars
    /\ [][\A c \in Conns : IsPrefix(inbox[c], inbox'[c])]_vars

\* C15 witness: two open connections have both received the same two
\* different lines.
C15_Witness ==
    /\ conn[1] = "OPEN"
    /\ conn[2] = "OPEN"
    /\ Len(inbox[1]) = 2
    /\ inbox[1][1] # inbox[1][2]
    /\ inbox[2] = inbox[1]

\* C16: the error event of connection c leaves the process running, takes c
\* out of the connections a broadcast is sent to and touches no other
\* connection; from then on c receives no line, while a line is still sent
\* to every connection that is open.
C16_ConnectionErrorIsLocal ==
    /\ [][\A c \in Conns :
              OnError(c) =>
                  /\ status' = status
                  /\ exitCode' = exitCode
                  /\ conn'[c] # "OPEN"
                  /\ inbox' = inbox
                  /\ \A d \in Conns \ {c} : conn'[d] = conn[d]]_vars
    /\ [][\A c \in errored : c \in errored' /\ inbox'[c] = inbox[c]]_vars
    /\ [][\A line \in RawLines :
              (OnDeviceLine(line) /\ errored # {}) =>
                  \A d \in Conns :
                      conn[d] = "OPEN" =>
                          inbox'[d] = Append(inbox[d], Trim(line))]_vars

\* C16 witness: connection 1 reported an error and received nothing; the
\* process runs and connection 2, accepted after it, received a line.
C16_Witness ==
    /\ errored = {1}
    /\ status = "open"
    /\ inbox[1] = <<>>
    /\ conn[2] = "OPEN"
    /\ Len(inbox[2]) = 1

\* C17: the rejection of the default write set({ state: "closed" }) leaves
\* the process running with its exit status untouched, whatever the runtime
\* does with a rejected promise nobody handles.
C17_SetRejectionSwallowed ==
    [][\A mode \in UnhandledRejectionModes :
          SetRejected(mode) => (status' = status /\ exitCode' = exitCode)]_vars

\* C18: when the default write takes effect on a document that exists by
\* then, it leaves the document as it is and the listener is sent no new
\* version; in particular an "open" document is not made "closed" by it.
C18_DefaultWriteOnlyIfAbsent ==
    [][(SetApplied /\ doc.exists) => (doc' = doc /\ snapQ' = snapQ)]_vars

\* C19: the port.write calls made so far are as many as the client messages
\* handled plus the snapshots handled whose state is "open" or "closed";
\* handling a device line, accepting a connection and a connection closing
\* make no port.write call.
C19_WriteCount ==
    /\ [](Len(portWrites) = nMsgs + nOpenSnaps + nClosedSnaps)
    /\ [][\A line \in RawLines :
              OnDeviceLine(line) => portWrites' = portWrites]_vars
    /\ [][\A c \in Conns :
              (Connect(c) \/ StartClose(c) \/ OnClose(c)) =>
                  portWrites' = portWrites]_vars

\* C19 witness: a connection was accepted, received a line, sent a message
\* and is closing, and the two port.write calls are the one for the message
\* and the one for a "closed" snapshot; the snapshot of the missing document
\* counted for nothing.
C19_Witness ==
    /\ conn[1] = "CLOSING"
    /\ Len(inbox[1]) = 1
    /\ nMsgs = 1
    /\ nSnaps = 2
    /\ nClosedSnaps = 1
    /\ Len(portWrites) = 2

\* C20: what a client has received changes only when a device line is
\* handled, only for a connection that is open then, and only by that line
\* (trimmed) being added; nothing is handed over when a connection is
\* accepted, and a connection not accepted yet has received nothing. So no
\* line broadcast earlier is replayed, and no client message or document
\* change reaches a client.
C20_OnlyLiveDeviceLines ==
    /\ [](\A c \in Conns : conn[c] = "NONE" => inbox[c] = <<>>)
    /\ [][inbox' # inbox => \E line \in RawLines : OnDeviceLine(line)]_vars
    /\ [][\A c \in Conns :
              inbox'[c] # inbox[c] =>
                  /\ conn[c] = "OPEN"
                  /\ \E line \in RawLines :
                        inbox'[c] = Append(inbox[c], Trim(line))]_vars
    /\ [][\A c \in Conns : Connect(c) => inbox'[c] = <<>>]_vars

\* C20 witness: connection 2 was accepted after a line had been broadcast to
\* connection 1 and has received nothing, although a client message and a
\* snapshot were handled since.
C20_Witness ==
    /\ conn[1] = "OPEN"
    /\ conn[2] = "OPEN"
    /\ Len(inbox[1]) = 1
    /\ inbox[2] = <<>>
    /\ nMsgs = 1
    /\ nSnaps >= 1

====
